---- MODULE Spec2Model ----
(***************************************************************************)
(* Model of src/app.py: the Flask handlers process_text,                   *)
(* process_text_stream and process_voice, the text and voice modes of      *)
(* call_ai, director_review and generate_neural_speech.                    *)
(* Each request is a thread of the server; it blocks at every backend call *)
(* (requests.post) and, for the stream handler, suspends at every yield.   *)
(* Spec and FairSpec run the two text handlers, VoiceSpec the voice        *)
(* handler, AllSpec the three of them side by side.                        *)
(***************************************************************************)
EXTENDS Naturals, Sequences, FiniteSets, TLC

VARIABLES backend, pc, req, calls, response_text, res, events, response

vars == <<backend, pc, req, calls, response_text, res, events, response>>

\* The requests in flight at the same time (Flask serves each on its own thread).
Requests == {"r1", "r2"}

\* Python's None.
None == "<None>"

\* ---------------------------------------------------------------- roster
MODELS ==
    [GEMINI       |-> "gemini-3-flash-preview",
     GEMMA        |-> "gemma-3-27b-it",
     DIRECTOR     |-> "gemini-3-flash-preview",
     NATIVE_AUDIO |-> "gemini-2.5-flash-native-audio-dialog",
     NEURAL_TTS   |-> "gemini-2.5-flash-tts"]

\* A lookup that ignores the requested model.
target_model_IgnoreRequest(model_id) == MODELS["GEMINI"]

\* MODELS.get(model_id, MODELS["GEMINI"])
target_model(model_id) ==
    IF model_id \in DOMAIN MODELS THEN MODELS[model_id] ELSE MODELS["GEMINI"]

\* The models a text request can be sent to from the page (setModel).
TextModels == {MODELS["GEMINI"], MODELS["GEMMA"]}

\* ---------------------------------------------------------------- inputs
Handlers == {"process_text", "process_text_stream"}

\* data.get('model'): a roster key the page offers, or anything else.
ModelIds == {"GEMINI", "GEMMA", "UNLISTED"}

\* data.get('deep_think'): true, false, or the key is absent (None).
DeepThinkValues == {"true", "false", None}

\* A test that takes an absent flag for a set one.
Truthy_NotFalse(v) == v # "false"

\* Python truthiness of the deep_think value.
Truthy(v) == v = "true"

\* ---------------------------------------------------------------- backend
\* What one generateContent call can come to: a well-formed answer, an
\* exception out of requests.post, a JSON body without "candidates", or a
\* body that r.json() cannot decode.
Failures == {"transport", "error_flagged", "malformed"}
Statuses == {"ok"} \cup Failures

\* str(e) of the exception each failure raises in the try block.
ErrorDetail(status) ==
    CASE status = "transport"     -> "Connection refused"
      [] status = "error_flagged" -> "'candidates'"
      [] status = "malformed"     -> "Expecting value"

\* The text a text model generates when it answers.
GeneratedText(model) ==
    IF model = MODELS["GEMMA"] THEN "Y" ELSE "X"

\* What the reviewer can answer with: a bare approval, the draft echoed
\* back, or a rewrite.
ApprovalSentinel == "APPROVED"
ReviewerTexts(draft) == {ApprovalSentinel, draft, "Z"}

\* An error text that drops the exception's detail.
ErrorText_NoDetail(status) == "Error: "

\* f"Error: {str(e)}"
ErrorText(status) == "Error: " \o ErrorDetail(status)

\* parse_markdown(text): markdown2 renders a plain one-line text as one paragraph.
parse_markdown(text) == "<p>" \o text \o "</p>"

\* An except clause that hands back an empty text.
FailureResult_Empty(status) == [text |-> "", audio |-> None]

\* call_ai's except clause: return {"text": f"Error: {str(e)}", "audio": None}
FailureResult(status) == [text |-> ErrorText(status), audio |-> None]

\* An except clause that lets the exception escape: the handler dies.
AfterDraftFailure_Raise == "raised"

\* Where call_ai goes after its except clause: it returns to the handler.
AfterDraftFailure == "return"

\* A review that is entered again once it has returned.
AfterReview_Reenter == "director_review"

\* Where call_ai goes after director_review has returned: it returns.
AfterReview == "return"

\* ---------------------------------------------------------------- state
NoRequest == [handler |-> None, model |-> None, deep_think |-> None]

\* call_ai has not returned yet; the handler has not answered yet.
NoResult == [text |-> None, audio |-> None]
NoResponse == [text |-> None, html |-> None]

Init ==
    /\ backend \in [TextModels -> Statuses]
    /\ pc = [r \in Requests |-> "idle"]
    /\ req = [r \in Requests |-> NoRequest]
    /\ calls = [r \in Requests |-> <<>>]
    /\ response_text = [r \in Requests |-> None]
    /\ res = [r \in Requests |-> NoResult]
    /\ events = [r \in Requests |-> <<>>]
    /\ response = [r \in Requests |-> NoResponse]

\* The last call of a request gets its outcome: its status and, when it
\* answered, the text of candidates[0].content.parts[0].
Settle(cs, status, text) ==
    [cs EXCEPT ![Len(cs)] = [@ EXCEPT !.status = status, !.text = text]]

Thinking(text) == [type |-> "thinking", text |-> text]

\* ---------------------------------------------------------------- handlers
\* A POST arrives: process_text enters call_ai at once; process_text_stream
\* returns Response(generate()) and the generator has not run yet.
Submit(r, h, m, d) ==
    /\ pc[r] = "idle"
    /\ req' = [req EXCEPT ![r] = [handler |-> h, model |-> m, deep_think |-> d]]
    /\ pc' = [pc EXCEPT ![r] = IF h = "process_text" THEN "call_ai" ELSE "generate"]
    /\ UNCHANGED <<backend, calls, response_text, res, events, response>>

\* generate(): yield 'Analyzing your request...'
YieldAnalyzing(r) ==
    /\ pc[r] = "generate"
    /\ events' = [events EXCEPT ![r] = Append(@, Thinking("Analyzing your request..."))]
    /\ pc' = [pc EXCEPT ![r] = "analyzed"]
    /\ UNCHANGED <<backend, req, calls, response_text, res, response>>

\* generate(): sleep, yield 'Processing with AI model...'
YieldProcessing(r) ==
    /\ pc[r] = "analyzed"
    /\ events' = [events EXCEPT ![r] = Append(@, Thinking("Processing with AI model..."))]
    /\ pc' = [pc EXCEPT ![r] =
                IF Truthy(req[r].deep_think) THEN "processing_dt" ELSE "call_ai"]
    /\ UNCHANGED <<backend, req, calls, response_text, res, response>>

\* The two Deep Think yields in the wrong order.
YieldReviewing_Swapped(r) ==
    /\ pc[r] = "processing_dt"
    /\ events' = [events EXCEPT ![r] = Append(@, Thinking("Refining response..."))]
    /\ pc' = [pc EXCEPT ![r] = "reviewing"]
    /\ UNCHANGED <<backend, req, calls, response_text, res, response>>

\* generate(): if deep_think: sleep, yield 'Director is reviewing...'
YieldReviewing(r) ==
    /\ pc[r] = "processing_dt"
    /\ events' = [events EXCEPT ![r] = Append(@, Thinking("Director is reviewing..."))]
    /\ pc' = [pc EXCEPT ![r] = "reviewing"]
    /\ UNCHANGED <<backend, req, calls, response_text, res, response>>

\* generate(): sleep, yield 'Refining response...'
YieldRefining(r) ==
    /\ pc[r] = "reviewing"
    /\ events' = [events EXCEPT ![r] = Append(@, Thinking("Refining response..."))]
    /\ pc' = [pc EXCEPT ![r] = "call_ai"]
    /\ UNCHANGED <<backend, req, calls, response_text, res, response>>

\* A generator that calls the model before it has yielded anything.
PostDraft_BeforeYields(r) ==
    /\ pc[r] \in {"call_ai", "generate"}
    /\ calls' = [calls EXCEPT ![r] =
                   Append(@, [role |-> "draft",
                              model |-> target_model(req[r].model),
                              status |-> "pending",
                              text |-> None])]
    /\ pc' = [pc EXCEPT ![r] = "draft_wait"]
    /\ UNCHANGED <<backend, req, response_text, res, events, response>>

\* call_ai, text mode: requests.post(url, json=payload) to the target model.
PostDraft(r) ==
    /\ pc[r] = "call_ai"
    /\ calls' = [calls EXCEPT ![r] =
                   Append(@, [role |-> "draft",
                              model |-> target_model(req[r].model),
                              status |-> "pending",
                              text |-> None])]
    /\ pc' = [pc EXCEPT ![r] = "draft_wait"]
    /\ UNCHANGED <<backend, req, response_text, res, events, response>>

\* call_ai, text mode, after the post: the try block's remainder up to the
\* review call, or the except clause.
call_ai_draft(r, status) ==
    /\ calls' = [calls EXCEPT ![r] =
          Settle(@, status,
                 IF status = "ok" THEN GeneratedText(target_model(req[r].model))
                                  ELSE None)]
    /\ IF status = "ok"
       THEN /\ response_text' = [response_text EXCEPT
                   ![r] = GeneratedText(target_model(req[r].model))]
            /\ IF Truthy(req[r].deep_think)
               THEN /\ pc' = [pc EXCEPT ![r] = "director_review"]
                    /\ res' = res
               ELSE /\ pc' = [pc EXCEPT ![r] = "return"]
                    /\ res' = [res EXCEPT ![r] =
                          [text |-> GeneratedText(target_model(req[r].model)),
                           audio |-> None]]
       ELSE /\ response_text' = response_text
            /\ res' = [res EXCEPT ![r] = FailureResult(status)]
            /\ pc' = [pc EXCEPT ![r] = AfterDraftFailure]

DraftReply(r) ==
    /\ pc[r] = "draft_wait"
    /\ call_ai_draft(r, backend[target_model(req[r].model)])
    /\ UNCHANGED <<backend, req, events, response>>

\* director_review: requests.post to MODELS['DIRECTOR'].
PostReview(r) ==
    /\ pc[r] = "director_review"
    /\ calls' = [calls EXCEPT ![r] =
                   Append(@, [role |-> "review",
                              model |-> MODELS["DIRECTOR"],
                              status |-> "pending",
                              text |-> None])]
    /\ pc' = [pc EXCEPT ![r] = "review_wait"]
    /\ UNCHANGED <<backend, req, response_text, res, events, response>>

\* A review that always keeps the draft.
director_review_KeepDraft(initial_response, status, text) == initial_response

\* A review whose failure escapes to call_ai's except clause.
director_review_Raise(initial_response, status, text) ==
    IF status = "ok" THEN text ELSE ErrorText(status)

\* director_review's result: the reviewer's text, or initial_response when
\* anything in the try block raised.
director_review(initial_response, status, text) ==
    IF status = "ok" THEN text ELSE initial_response

\* A review that keeps its result in a variable all requests share.
ReviewReply_Shared(r, status, text) ==
    /\ pc[r] = "review_wait"
    /\ calls' = [calls EXCEPT ![r] = Settle(@, status, text)]
    /\ response_text' = [q \in Requests |->
           director_review(response_text[r], status, text)]
    /\ res' = [res EXCEPT ![r] =
           [text |-> director_review(response_text[r], status, text),
            audio |-> None]]
    /\ pc' = [pc EXCEPT ![r] = AfterReview]
    /\ UNCHANGED <<backend, req, events, response>>

\* The review call comes back; call_ai stores the result and returns.
ReviewReply(r, status, text) ==
    /\ pc[r] = "review_wait"
    /\ calls' = [calls EXCEPT ![r] = Settle(@, status, text)]
    /\ response_text' = [response_text EXCEPT
           ![r] = director_review(response_text[r], status, text)]
    /\ res' = [res EXCEPT ![r] =
           [text |-> director_review(response_text[r], status, text),
            audio |-> None]]
    /\ pc' = [pc EXCEPT ![r] = AfterReview]
    /\ UNCHANGED <<backend, req, events, response>>

\* A handler that answers while its generation call is still in flight.
process_text_return_Early(r) ==
    /\ pc[r] = "draft_wait"
    /\ req[r].handler = "process_text"
    /\ response' = [response EXCEPT ![r] = [text |-> "accepted", html |-> None]]
    /\ pc' = [pc EXCEPT ![r] = "done"]
    /\ UNCHANGED <<backend, req, calls, response_text, res, events>>

\* process_text: jsonify({"text": res["text"], "html": html_content})
process_text_return(r) ==
    /\ pc[r] = "return"
    /\ req[r].handler = "process_text"
    /\ response' = [response EXCEPT ![r] =
           [text |-> res[r].text, html |-> parse_markdown(res[r].text)]]
    /\ pc' = [pc EXCEPT ![r] = "done"]
    /\ UNCHANGED <<backend, req, calls, response_text, res, events>>

\* generate(): yield the 'response' event.
YieldResponse(r) ==
    /\ pc[r] = "return"
    /\ req[r].handler = "process_text_stream"
    /\ events' = [events EXCEPT ![r] =
           Append(@, [type |-> "response", text |-> res[r].text,
                      html |-> parse_markdown(res[r].text)])]
    /\ pc' = [pc EXCEPT ![r] = "responded"]
    /\ UNCHANGED <<backend, req, calls, response_text, res, response>>

\* generate(): yield the 'done' event; the generator is exhausted.
YieldDone(r) ==
    /\ pc[r] = "responded"
    /\ events' = [events EXCEPT ![r] = Append(@, [type |-> "done"])]
    /\ pc' = [pc EXCEPT ![r] = "done"]
    /\ UNCHANGED <<backend, req, calls, response_text, res, response>>

Step(r) ==
    \/ YieldAnalyzing(r)
    \/ YieldProcessing(r)
    \/ YieldReviewing(r)
    \/ YieldRefining(r)
    \/ PostDraft(r)
    \/ DraftReply(r)
    \/ PostReview(r)
    \/ \E status \in Statuses :
          \E text \in (IF status = "ok" THEN ReviewerTexts(response_text[r]) ELSE {None}) :
             ReviewReply(r, status, text)
    \/ process_text_return(r)
    \/ YieldResponse(r)
    \/ YieldDone(r)

Next ==
    \/ \E r \in Requests, h \in Handlers, m \in ModelIds, d \in DeepThinkValues :
          Submit(r, h, m, d)
    \/ \E r \in Requests : Step(r)

Spec == Init /\ [][Next]_vars

\* Every backend call returns or fails in finite time, and the server keeps
\* running each request's thread.
FairSpec == Spec /\ \A r \in Requests : WF_vars(Step(r))

\* ---------------------------------------------------------------- voice
\* The longest list of parts a native-audio answer is given here.
MaxParts == 2

\* The parts of candidates[0].content: a text part, or an inline_data part
\* with its data (which a backend may leave empty).
PartValues ==
    {[text |-> "T1"], [text |-> "T2"], [inline_data |-> "A1"], [inline_data |-> ""]}

PartSeqs == UNION {[1..n -> PartValues] : n \in 0..MaxParts}

\* A loop that keeps the first text part instead of the last.
RECURSIVE voice_parts_FirstText(_, _, _)
voice_parts_FirstText(parts, resp_text, resp_audio) ==
    IF parts = <<>>
    THEN [text |-> resp_text, audio |-> resp_audio]
    ELSE LET part == Head(parts)
         IN  voice_parts_FirstText(
                Tail(parts),
                IF "text" \in DOMAIN part /\ resp_text = "Audio Message."
                   THEN part.text ELSE resp_text,
                IF "inline_data" \in DOMAIN part THEN part.inline_data ELSE resp_audio)

\* call_ai, voice mode: for part in parts: the last text part and the last
\* inline_data part win.
RECURSIVE voice_parts(_, _, _)
voice_parts(parts, resp_text, resp_audio) ==
    IF parts = <<>>
    THEN [text |-> resp_text, audio |-> resp_audio]
    ELSE LET part == Head(parts)
         IN  voice_parts(
                Tail(parts),
                IF "text" \in DOMAIN part THEN part.text ELSE resp_text,
                IF "inline_data" \in DOMAIN part THEN part.inline_data ELSE resp_audio)

\* The native-audio call raises in the try block: requests.post or r.json()
\* fails. A body without "candidates" raises nothing in voice mode.
VoiceRaises(status) == status \in {"transport", "malformed"}

\* The parts the loop runs over: none when "candidates" is not in data.
NativeParts(status, parts) == IF status = "ok" THEN parts ELSE <<>>

\* Python's `not resp_audio`.
NotAudio(a) == a \in {None, ""}

\* generate_neural_speech: the first inline_data of the answer, None when
\* there is none or when anything raised.
generate_neural_speech(status, audio) == IF status = "ok" THEN audio ELSE None

\* What the TTS call can answer with: audio, or an answer without inline_data.
TTSAudio(status) == IF status = "ok" THEN {"TTS", None} ELSE {None}

\* A POST to /process_voice arrives; call_ai is entered in voice mode.
SubmitVoice(r) ==
    /\ pc[r] = "idle"
    /\ req' = [req EXCEPT ![r] =
          [handler |-> "process_voice", model |-> None, deep_think |-> None]]
    /\ pc' = [pc EXCEPT ![r] = "voice"]
    /\ UNCHANGED <<backend, calls, response_text, res, events, response>>

\* call_ai, voice mode: requests.post to MODELS['NATIVE_AUDIO'].
PostVoice(r) ==
    /\ pc[r] = "voice"
    /\ calls' = [calls EXCEPT ![r] =
                   Append(@, [role |-> "native_audio",
                              model |-> MODELS["NATIVE_AUDIO"],
                              status |-> "pending",
                              text |-> None,
                              audio |-> None,
                              has_audio |-> FALSE])]
    /\ pc' = [pc EXCEPT ![r] = "voice_wait"]
    /\ UNCHANGED <<backend, req, response_text, res, events, response>>

\* Where call_ai goes when the answer gave it no audio: to the fallback.
AfterNoAudio == "tts"

\* The native-audio call comes back: the except clause, or the loop over
\* the parts and the test of resp_audio.
VoiceReply(r, status, parts) ==
    /\ pc[r] = "voice_wait"
    /\ IF VoiceRaises(status)
       THEN /\ calls' = [calls EXCEPT ![r] =
                  [@ EXCEPT ![Len(@)] = [@ EXCEPT !.status = status]]]
            /\ res' = [res EXCEPT ![r] = [text |-> ErrorDetail(status), audio |-> None]]
            /\ response_text' = response_text
            /\ pc' = [pc EXCEPT ![r] = "return"]
       ELSE LET out == voice_parts(NativeParts(status, parts), "Audio Message.", None)
                heard == NativeParts(status, parts)
            IN  /\ calls' = [calls EXCEPT ![r] =
                      [@ EXCEPT ![Len(@)] =
                          [@ EXCEPT !.status = status,
                                    !.text = out.text,
                                    !.audio = out.audio,
                                    !.has_audio =
                                        \E i \in 1..Len(heard) :
                                           "inline_data" \in DOMAIN heard[i]]]]
                /\ response_text' = [response_text EXCEPT ![r] = out.text]
                /\ IF NotAudio(out.audio)
                   THEN /\ pc' = [pc EXCEPT ![r] = AfterNoAudio]
                        /\ res' = res
                   ELSE /\ pc' = [pc EXCEPT ![r] = "return"]
                        /\ res' = [res EXCEPT ![r] =
                              [text |-> out.text, audio |-> out.audio]]
    /\ UNCHANGED <<backend, req, events, response>>

\* generate_neural_speech(resp_text): requests.post to MODELS['NEURAL_TTS'].
PostTTS(r) ==
    /\ pc[r] = "tts"
    /\ calls' = [calls EXCEPT ![r] =
                   Append(@, [role |-> "tts",
                              model |-> MODELS["NEURAL_TTS"],
                              status |-> "pending",
                              input |-> response_text[r],
                              audio |-> None])]
    /\ pc' = [pc EXCEPT ![r] = "tts_wait"]
    /\ UNCHANGED <<backend, req, response_text, res, events, response>>

\* The fallback comes back; call_ai returns {"text": resp_text, "audio": resp_audio}.
TTSReply(r, status, audio) ==
    /\ pc[r] = "tts_wait"
    /\ calls' = [calls EXCEPT ![r] =
          [@ EXCEPT ![Len(@)] =
              [@ EXCEPT !.status = status,
                        !.audio = generate_neural_speech(status, audio)]]]
    /\ res' = [res EXCEPT ![r] =
          [text |-> response_text[r],
           audio |-> generate_neural_speech(status, audio)]]
    /\ pc' = [pc EXCEPT ![r] = "return"]
    /\ UNCHANGED <<backend, req, response_text, events, response>>

\* process_voice: jsonify({"text": res["text"], "audio": res["audio"]})
process_voice_return(r) ==
    /\ pc[r] = "return"
    /\ req[r].handler = "process_voice"
    /\ response' = [response EXCEPT ![r] =
           [text |-> res[r].text, audio |-> res[r].audio]]
    /\ pc' = [pc EXCEPT ![r] = "done"]
    /\ UNCHANGED <<backend, req, calls, response_text, res, events>>

VoiceStep(r) ==
    \/ PostVoice(r)
    \/ \E status \in Statuses, parts \in PartSeqs : VoiceReply(r, status, parts)
    \/ PostTTS(r)
    \/ \E status \in Statuses :
          \E audio \in TTSAudio(status) : TTSReply(r, status, audio)
    \/ process_voice_return(r)

VoiceNext ==
    \/ \E r \in Requests : SubmitVoice(r)
    \/ \E r \in Requests : VoiceStep(r)

\* The voice handler alone.
VoiceSpec == Init /\ [][VoiceNext]_vars

\* The three handlers side by side.
AllNext == Next \/ VoiceNext

AllSpec == Init /\ [][AllNext]_vars

\* ---------------------------------------------------------------- observers
\* The chain a text request names: the requested model first, then the
\* roster's other text model.
ModelChain(model_id) ==
    IF model_id = "GEMMA"
    THEN <<MODELS["GEMMA"], MODELS["GEMINI"]>>
    ELSE <<MODELS["GEMINI"], MODELS["GEMMA"]>>

\* The index of the first candidate of a chain that answers, 0 when none does.
FirstSuccess(chain) ==
    IF \E i \in 1..Len(chain) : backend[chain[i]] = "ok"
    THEN CHOOSE i \in 1..Len(chain) :
            /\ backend[chain[i]] = "ok"
            /\ \A j \in 1..(i - 1) : backend[chain[j]] # "ok"
    ELSE 0

IsDraft(c) == c.role = "draft"
IsReview(c) == c.role = "review"

\* The models one request's generation attempts went to, in order.
Attempts(r) ==
    LET ds == SelectSeq(calls[r], IsDraft)
    IN  [i \in 1..Len(ds) |-> ds[i].model]

\* The generation request of r is over: its call has come back and no
\* review has replaced its output yet.
GenerationDone(r) ==
    /\ Len(calls[r]) >= 1
    /\ calls[r][1].status # "pending"
    /\ Len(calls[r]) >= 2 => calls[r][2].status = "pending"

\* What the generation request produced: call_ai's result when it has
\* returned, else the draft it holds while the review runs.
GenerationOutput(r) ==
    IF res[r] # NoResult THEN res[r].text ELSE response_text[r]

\* call_ai has returned to the handler of r.
Returned(r) == res[r] # NoResult

\* The review call of r has come back.
Reviewed(r) ==
    /\ Len(calls[r]) >= 2
    /\ calls[r][2].status # "pending"

\* The text the consumer of r has been handed, None when nothing yet.
Delivered(r) ==
    IF response[r] # NoResponse THEN response[r].text
    ELSE IF \E i \in 1..Len(events[r]) : events[r][i].type = "response"
         THEN events[r][CHOOSE i \in 1..Len(events[r]) :
                           events[r][i].type = "response"].text
         ELSE None

ErrorTexts == {ErrorText(s) : s \in Failures}

\* ---------------------------------------------------------------- C1
\* C1 as stated: when the first K candidates of the chain fail and candidate
\* K+1 answers, the generation request makes exactly K+1 attempts in chain
\* order and returns candidate K+1's text.
C1_FallbackAlongChain ==
    \A r \in Requests :
        LET chain == ModelChain(req[r].model)
            k == FirstSuccess(chain)
        IN  (GenerationDone(r) /\ k > 0) =>
               /\ Attempts(r) = SubSeq(chain, 1, k)
               /\ GenerationOutput(r) = GeneratedText(chain[k])

\* C1 (amended): a generation request makes exactly one attempt, against the
\* first candidate of its chain, and never a second one; it returns that
\* candidate's generated text when the attempt succeeds, and a failure when
\* it fails, even if a later candidate would have answered.
C1_SingleAttempt ==
    \A r \in Requests :
        LET chain == ModelChain(req[r].model)
        IN  /\ Len(Attempts(r)) <= 1
            /\ GenerationDone(r) =>
                  /\ Attempts(r) = <<chain[1]>>
                  /\ backend[chain[1]] = "ok" =>
                        GenerationOutput(r) = GeneratedText(chain[1])
                  /\ backend[chain[1]] # "ok" =>
                        GenerationOutput(r) = ErrorText(backend[chain[1]])

\* The first candidate failed, the second would have answered, and the
\* request is over with the first candidate's failure.
C1_Witness ==
    \E r \in Requests :
        LET chain == ModelChain(req[r].model)
        IN  /\ GenerationDone(r)
            /\ FirstSuccess(chain) = 2
            /\ Attempts(r) = <<chain[1]>>
            /\ GenerationOutput(r) \in ErrorTexts

\* ---------------------------------------------------------------- C2
\* C2 as stated: when all N candidates of the chain fail, the generation
\* request makes exactly N attempts and returns the last one's failure.
C2_ExhaustsChain ==
    \A r \in Requests :
        LET chain == ModelChain(req[r].model)
        IN  (GenerationDone(r) /\ FirstSuccess(chain) = 0) =>
               /\ Attempts(r) = chain
               /\ GenerationOutput(r) = ErrorText(backend[chain[Len(chain)]])

\* C2 (amended): when every candidate of the chain fails, the generation
\* request makes exactly one attempt (the first candidate) and returns to
\* its caller a failure result carrying the error detail of that attempt;
\* it returns no generated text and makes no review call.
C2_FailureOfOnlyAttempt ==
    \A r \in Requests :
        LET chain == ModelChain(req[r].model)
        IN  (GenerationDone(r) /\ FirstSuccess(chain) = 0) =>
               /\ Len(Attempts(r)) = 1
               /\ Returned(r)
               /\ res[r] = [text |-> "Error: " \o ErrorDetail(calls[r][1].status),
                            audio |-> None]
               /\ res[r].text \notin {GeneratedText(m) : m \in TextModels}
               /\ Len(calls[r]) = 1

\* Both candidates are down with different errors and the request has
\* returned the first one's.
C2_Witness ==
    \E r \in Requests :
        LET chain == ModelChain(req[r].model)
        IN  /\ GenerationDone(r)
            /\ backend[chain[1]] = "transport"
            /\ backend[chain[2]] = "malformed"
            /\ Returned(r)
            /\ res[r].text = "Error: Connection refused"

\* ---------------------------------------------------------------- C3
\* C3 as stated: when the reviewer answers with exactly the approval
\* sentinel, the final text is the draft and no further call is made.
C3_SentinelKeepsDraft ==
    \A r \in Requests :
        (Reviewed(r) /\ calls[r][2].status = "ok"
                     /\ calls[r][2].text = ApprovalSentinel) =>
           /\ res[r].text = calls[r][1].text
           /\ Len(calls[r]) = 2

\* C3 (amended): director_review returns the reviewer's response verbatim,
\* so the final text equals the draft exactly when the reviewer's response
\* is the draft itself (a response that is only the approval sentinel
\* becomes the final text); no fix call is issued.
C3_ReviewerTextVerbatim ==
    \A r \in Requests :
        (Reviewed(r) /\ calls[r][2].status = "ok") =>
           /\ res[r].text = calls[r][2].text
           /\ (res[r].text = calls[r][1].text) <=> (calls[r][2].text = calls[r][1].text)
           /\ Len(calls[r]) = 2

\* The reviewer returned the draft as it was and the request ends with it.
C3_Witness ==
    \E r \in Requests :
        /\ Reviewed(r)
        /\ calls[r][2].status = "ok"
        /\ calls[r][2].text = calls[r][1].text
        /\ pc[r] = "done"
        /\ Delivered(r) = calls[r][1].text

\* ---------------------------------------------------------------- C4
\* C4 as stated: when the reviewer answers with anything but the approval
\* sentinel, one fix call follows the critique call before the request ends.
C4_FixCallAfterCritique ==
    \A r \in Requests :
        (Reviewed(r) /\ calls[r][2].status = "ok"
                     /\ calls[r][2].text # ApprovalSentinel
                     /\ pc[r] = "done") =>
           /\ Len(calls[r]) = 3
           /\ calls[r][3].role = "fix"

\* C4 (amended): when the reviewer answers with anything but the approval
\* sentinel, no fix call is issued and the reviewer's answer itself is
\* returned; over a single request there is at most one review call, it
\* comes after the generation call, and the review is never re-entered.
C4_OneReviewNoFix ==
    \A r \in Requests :
        /\ Len(SelectSeq(calls[r], IsReview)) <= 1
        /\ Len(calls[r]) <= 2
        /\ \A i \in 1..Len(calls[r]) :
              calls[r][i].role = (IF i = 1 THEN "draft" ELSE "review")
        /\ (Reviewed(r) /\ calls[r][2].status = "ok"
                        /\ calls[r][2].text # ApprovalSentinel) =>
              res[r].text = calls[r][2].text

\* The reviewer rewrote the draft and the request ended after two calls
\* with the rewrite.
C4_Witness ==
    \E r \in Requests :
        /\ Reviewed(r)
        /\ calls[r][2].text = "Z"
        /\ pc[r] = "done"
        /\ Len(calls[r]) = 2
        /\ Delivered(r) = "Z"

C6_NoErrorAsResult ==
    \A r \in Requests : Delivered(r) \notin ErrorTexts

\* C6 (amended): a failure of the generation call is surfaced to the
\* consumer through the result interface: the delivered text is then the
\* message "Error: <detail>" in place of the artifact; in every other
\* outcome the delivered text is generated content (the draft or the
\* reviewer's text), a failure of the review call being hidden.
C6_DraftFailureIsDelivered ==
    \A r \in Requests :
        Delivered(r) # None =>
           IF calls[r][1].status \in Failures
           THEN Delivered(r) = "Error: " \o ErrorDetail(calls[r][1].status)
           ELSE /\ Delivered(r) \in {calls[r][1].text} \cup ReviewerTexts(calls[r][1].text)
                /\ Delivered(r) \notin ErrorTexts

\* A stream request whose generation call hit a transport error has
\* emitted the error message as its response.
C6_Witness ==
    \E r \in Requests :
        /\ req[r].handler = "process_text_stream"
        /\ calls[r] # <<>>
        /\ calls[r][1].status = "transport"
        /\ Delivered(r) = "Error: Connection refused"

Answered(r) ==
    /\ pc[r] = "done"
    /\ IF req[r].handler = "process_text_stream"
       THEN /\ Len(events[r]) >= 2
            /\ events[r][Len(events[r]) - 1].type = "response"
            /\ events[r][Len(events[r])].type = "done"
       ELSE response[r] # NoResponse

EventKey(e) == IF e.type = "thinking" THEN e.text ELSE e.type

\* The events of r, as keys, in the order they were emitted.
EventKeys(r) == [i \in 1..Len(events[r]) |-> EventKey(events[r][i])]

\* The 'thinking' texts a request with this deep_think value is to emit.
ExpectedThinking(d) ==
    IF d = "true"
    THEN <<"Analyzing your request...", "Processing with AI model...",
           "Director is reviewing...", "Refining response...">>
    ELSE <<"Analyzing your request...", "Processing with AI model...">>

\* C14: the events of one process_text_stream request come in a fixed
\* order: 'Analyzing your request...', 'Processing with AI model...', then,
\* if and only if deep_think is set, 'Director is reviewing...' and
\* 'Refining response...', then exactly one 'response' and exactly one
\* 'done', which is last; no 'thinking' event follows the 'response'.
C14_EventOrder ==
    \A r \in Requests :
        req[r].handler = "process_text_stream" =>
           LET expected == ExpectedThinking(req[r].deep_think) \o <<"response", "done">>
               got == EventKeys(r)
           IN  /\ Len(got) <= Len(expected)
               /\ got = SubSeq(expected, 1, Len(got))
               /\ pc[r] = "done" => got = expected

\* A Deep Think stream request has emitted its four 'thinking' events, its
\* 'response' and its 'done'.
C14_Witness ==
    \E r \in Requests :
        /\ req[r].handler = "process_text_stream"
        /\ req[r].deep_think = "true"
        /\ pc[r] = "done"
        /\ Len(events[r]) = 6
        /\ events[r][5].type = "response"

\* ---------------------------------------------------------------- C15
\* C15: in call_ai text mode a reviewer call is made only if deep_think is
\* set and the generation call succeeded; with the flag false or absent, or
\* with a failed draft, the request makes no reviewer call and returns the
\* draft, or the failure, untouched.
C15_ReviewOnlyWhenRequested ==
    \A r \in Requests :
        req[r].handler \in {"process_text", "process_text_stream"} =>
           /\ (\E i \in 1..Len(calls[r]) : calls[r][i].role = "review") =>
                 /\ req[r].deep_think = "true"
                 /\ calls[r][1].status = "ok"
           /\ (Returned(r) /\ (req[r].deep_think # "true" \/ calls[r][1].status # "ok")) =>
                 /\ Len(calls[r]) = 1
                 /\ res[r].text = (IF calls[r][1].status = "ok"
                                   THEN calls[r][1].text
                                   ELSE "Error: " \o ErrorDetail(calls[r][1].status))

\* A request without the deep_think key has returned its draft after one call.
C15_Witness ==
    \E r \in Requests :
        /\ req[r].handler = "process_text"
        /\ req[r].deep_think = None
        /\ Returned(r)
        /\ Len(calls[r]) = 1
        /\ calls[r][1].status = "ok"
        /\ res[r].text = calls[r][1].text

\* ---------------------------------------------------------------- C16
IsThinking(e) == e.type = "thinking"

\* The texts of the 'thinking' events r has emitted.
ThinkingEmitted(r) ==
    LET ts == SelectSeq(events[r], IsThinking)
    IN  [i \in 1..Len(ts) |-> ts[i].text]

\* C16: in process_text_stream every 'thinking' event is emitted before the
\* first backend call is issued, and which ones are emitted depends only on
\* the deep_think flag: once a call has been issued the 'thinking' events
\* are those of the flag, whatever the calls come to.
C16_ThinkingBeforeCalls ==
    \A r \in Requests :
        (req[r].handler = "process_text_stream" /\ calls[r] # <<>>) =>
           ThinkingEmitted(r) = ExpectedThinking(req[r].deep_think)

\* A Deep Think stream request whose draft call failed, which made no
\* reviewer call, has emitted 'Director is reviewing...' and 'Refining response...'.
C16_Witness ==
    \E r \in Requests :
        /\ req[r].handler = "process_text_stream"
        /\ req[r].deep_think = "true"
        /\ pc[r] = "done"
        /\ Len(calls[r]) = 1
        /\ calls[r][1].status \in Failures
        /\ ThinkingEmitted(r)[3] = "Director is reviewing..."
        /\ ThinkingEmitted(r)[4] = "Refining response..."

\* ---------------------------------------------------------------- C17
IsTTS(c) == c.role = "tts"

\* The fallback speech calls r has made.
FallbackCalls(r) == SelectSeq(calls[r], IsTTS)

\* The native-audio call of voice request r has come back.
VoiceAnswered(r) ==
    /\ req[r].handler = "process_voice"
    /\ calls[r] # <<>>
    /\ calls[r][1].status # "pending"

\* The text of the last text part of a list of parts, the default when it
\* holds none.
LastTextOrDefault(parts) ==
    LET ts == {i \in 1..Len(parts) : "text" \in DOMAIN parts[i]}
    IN  IF ts = {} THEN "Audio Message."
        ELSE parts[CHOOSE i \in ts : \A j \in ts : j <= i].text

\* Whatever the parts, the loop of the voice mode ends with the last text
\* part, or with the default text.
LoopKeepsLastText ==
    \A parts \in PartSeqs :
        voice_parts(parts, "Audio Message.", None).text = LastTextOrDefault(parts)

\* C17 as stated: the fallback speech call is made exactly once when the
\* native-audio answer carries no audio part, and not at all when it
\* carries one.
C17_FallbackIffNoAudioPart ==
    \A r \in Requests :
        (VoiceAnswered(r) /\ ~VoiceRaises(calls[r][1].status) /\ Returned(r)) =>
           Len(FallbackCalls(r)) = (IF calls[r][1].has_audio THEN 0 ELSE 1)

\* C17 (amended): in voice mode the fallback speech call is made exactly
\* once when the native-audio answer yields no audio data (no audio part,
\* among them an answer without candidates, or a last audio part whose data
\* is empty) and not at all when it yields audio data; the text passed to
\* it is the last text part of the answer, or 'Audio Message.' when there
\* is none; a failing fallback yields audio = None; and a native-audio call
\* that raises yields the error string as text, audio = None and no
\* fallback call.
C17_VoiceFallback ==
    /\ LoopKeepsLastText
    /\ \A r \in Requests :
          VoiceAnswered(r) =>
             LET native == calls[r][1]
                 fallback == FallbackCalls(r)
             IN  /\ Len(fallback) <= 1
                 /\ Len(fallback) = 1 =>
                       /\ ~VoiceRaises(native.status)
                       /\ native.audio \in {None, ""}
                       /\ fallback[1].input = native.text
                 /\ Returned(r) =>
                       IF native.status \in {"transport", "malformed"}
                       THEN /\ Len(fallback) = 0
                            /\ res[r] = [text |-> ErrorDetail(native.status),
                                         audio |-> None]
                       ELSE IF native.audio \in {None, ""}
                       THEN /\ Len(fallback) = 1
                            /\ res[r].text = native.text
                            /\ res[r].audio = (IF fallback[1].status = "ok"
                                               THEN fallback[1].audio ELSE None)
                            /\ fallback[1].status \in Failures => res[r].audio = None
                       ELSE /\ Len(fallback) = 0
                            /\ res[r] = [text |-> native.text, audio |-> native.audio]

\* A native-audio answer carried an audio part with empty data and the text
\* 'T2'; the fallback was called with 'T2', failed, and the request was
\* answered with 'T2' and no audio.
C17_Witness ==
    \E r \in Requests :
        /\ VoiceAnswered(r)
        /\ calls[r][1].has_audio
        /\ calls[r][1].audio = ""
        /\ Len(calls[r]) = 2
        /\ calls[r][2].input = "T2"
        /\ calls[r][2].status = "transport"
        /\ pc[r] = "done"
        /\ response[r] = [text |-> "T2", audio |-> None]

\* ---------------------------------------------------------------- C18
\* Everything the server holds for request r.
Own(r) == <<pc[r], req[r], calls[r], response_text[r], res[r], events[r], response[r]>>

\* Two finished requests with the same inputs whose calls were answered
\* alike have delivered the same.
SameInSameOut ==
    \A r, q \in Requests :
        (/\ pc[r] = "done"
         /\ pc[q] = "done"
         /\ req[r] = req[q]
         /\ calls[r] = calls[q]) =>
           /\ response[r] = response[q]
           /\ events[r] = events[q]

====
